---- MODULE Spec2Model ----
(***************************************************************************)
(* Model of the daily_assistant desktop application:                       *)
(*   - TaskManager (src/app.py), the background task runner;               *)
(*   - ChatBotTab (src/Modules/ChatBotTab/ChatbotTab.py), the chat tab     *)
(*     and its conversation log;                                           *)
(*   - SortPicturesTab (src/Modules/SortPituresTab/SortPicturesTab.py),    *)
(*     the batch picture sorter.                                           *)
(* The three components share no state; each has its own next-state        *)
(* relation and specification (SpecTM, SpecChat, SpecSort).                *)
(* Threads are identified by pairs: <<"main", 0>> is the UI thread,        *)
(* <<"worker", t>> the worker thread of task t, <<"timer", m>> a           *)
(* threading.Timer thread started by the monitor of run_task call m.       *)
(***************************************************************************)
EXTENDS Integers, Sequences, FiniteSets, TLC

\* ------------------------------------------------------------------------
\* Bounds
\* ------------------------------------------------------------------------

\* number of TaskManager.run_task calls made in one behaviour
MaxCalls == 2

\* number of chat turns (get_bot_response workers) started in one behaviour
MaxTurns == 3

\* number of chat turns already completed when a behaviour starts
MaxPreTurns == 5

\* number of sort_pictures workers started in one behaviour
MaxRuns == 3

\* ------------------------------------------------------------------------
\* State
\* ------------------------------------------------------------------------

VARIABLES
    \* --- TaskManager ---
    current_task,   \* self.current_task: 0 is None, else the id of the call that started it
    cancel_flag,    \* self.cancel_flag (threading.Event): TRUE when set
    result_queue,   \* self.result_queue: sequence of [status, value]
    tm_ret,         \* return value of every run_task call so far, in call order
    tm_caller,      \* thread that made each run_task call
    ignores,        \* per task: its work function never looks at the cancel flag
    wpc,            \* per task: position of its worker thread (wrapper)
    wstatus,        \* per task: 'success' / 'error' computed by the wrapper, "none" before
    early,          \* per task: the work saw the cancel flag set and ended early
    cancelled,      \* tasks whose work was executing when cancel_current_task was called
    mpc,            \* per run_task call: position of its monitor (check_result)
    invoked,        \* handler invocations so far, in order
    \* --- ChatBotTab ---
    chat_history,   \* self.chat_history: sequence of utterances
    said,           \* every utterance appended to the log since the tab was created or cleared, in order
    model_loaded,   \* self.model_loaded
    device_set,     \* self.device has been assigned
    lpc,            \* position of the load_model thread
    ui_queue,       \* callbacks queued with parent_frame.after(0, ...), in order
    send_enabled,   \* send_button state is "normal"
    entry_enabled,  \* chat_entry state is "normal"
    clear_enabled,  \* clear_button state is "normal"
    typing_attr,    \* self.typing_frame exists
    typing_orphans, \* a typing indicator frame that self.typing_frame no longer names is on screen
    turns,          \* get_bot_response workers started so far
    cpc,            \* per turn: position of its get_bot_response worker
    cmsg,           \* per turn: user_message (locals are dropped when the worker ends)
    cslice,         \* per turn: value of self.chat_history[-10:] not yet stored
    prompt,         \* per turn: string passed to tokenizer.encode
    plog,           \* per turn: self.chat_history as read when the prompt was built
    \* --- SortPicturesTab ---
    is_sorting,        \* self.is_sorting
    start_enabled,     \* start_button state is "normal"
    input_folder,      \* self.input_folder ("" until chosen)
    with_people_folder,    \* self.with_people_folder ("" until chosen)
    without_people_folder, \* self.without_people_folder ("" until chosen)
    detection_method,  \* self.detection_method
    status_log,        \* lines of the status_text widget that report a failed setup, in order
    input_files,       \* per input directory: the image files in it, in listing order
    dest,              \* per destination directory: its files, name |-> content
    runs,              \* sort_pictures workers started so far
    spc,               \* per worker: position in sort_pictures
    method,            \* per worker: local method
    sfolder,           \* per worker: input_path, the directory image_files was listed from
    image_files,       \* per worker: local image_files
    idx,               \* per worker: i of the loop, 1-based index of the current file
    handled,           \* per worker: files the loop is done with
    with_people_count,     \* per worker
    without_people_count,  \* per worker
    error_count,       \* per worker
    error_lines,       \* per worker: per-file error lines it has logged
    dest_folder,       \* per worker
    dest_path,         \* per worker: <<stem, n>>, n = 0 for name.ext, else name_n.ext
    counter            \* per worker

tmVars == <<current_task, cancel_flag, result_queue, tm_ret, tm_caller, ignores,
            wpc, wstatus, early, cancelled, mpc, invoked>>

chatVars == <<chat_history, said, model_loaded, device_set, lpc, ui_queue, send_enabled,
              entry_enabled, clear_enabled, typing_attr, typing_orphans,
              turns, cpc, cmsg, cslice, prompt, plog>>

sortVars == <<is_sorting, start_enabled, input_folder, with_people_folder,
              without_people_folder, detection_method, status_log, dest,
              input_files, runs, spc, method, sfolder, image_files, idx,
              handled, with_people_count, without_people_count, error_count,
              error_lines, dest_folder, dest_path, counter>>

sortUI == <<is_sorting, start_enabled, input_folder, with_people_folder,
            without_people_folder, detection_method>>

sortDisk == <<dest, input_files>>

sortLocals == <<method, sfolder, image_files, idx>>

sortCounts == <<handled, with_people_count, without_people_count, error_count,
                error_lines>>

sortTarget == <<dest_folder, dest_path, counter>>

chatLog == <<chat_history, said>>

chatButtons == <<send_enabled, entry_enabled, clear_enabled>>

chatTyping == <<typing_attr, typing_orphans>>

chatLocals == <<cmsg, cslice, prompt, plog>>

\* what the actions of one component leave alone
notTM == <<chatVars, sortVars>>

notChat == <<tmVars, sortVars>>

notSort == <<tmVars, chatVars>>

vars == <<current_task, cancel_flag, result_queue, tm_ret, tm_caller, ignores,
          wpc, wstatus, early, cancelled, mpc, invoked,
          chat_history, said, model_loaded, device_set, lpc, ui_queue, send_enabled,
          entry_enabled, clear_enabled, typing_attr, typing_orphans,
          turns, cpc, cmsg, cslice, prompt, plog,
          is_sorting, start_enabled, input_folder, with_people_folder,
          without_people_folder, detection_method, status_log, dest,
          input_files, runs, spc, method, sfolder, image_files, idx,
          handled, with_people_count, without_people_count, error_count,
          error_lines, dest_folder, dest_path, counter>>

\* ------------------------------------------------------------------------
\* TaskManager (src/app.py)
\* ------------------------------------------------------------------------

Calls == 1..MaxCalls

MainThread == <<"main", 0>>

TimerThread(m) == <<"timer", m>>

WorkerThread(t) == <<"worker", t>>

\* threading.Thread.is_alive() of the worker of task t: true from start()
\* until the thread has finished, which is after wrapper's put returned.
IsAlive(t) == wpc[t] \in {"running", "putting", "exiting"}

\* the guard of run_task: self.current_task and self.current_task.is_alive()
TaskAlreadyRunningNoExit ==
    /\ current_task # 0
    /\ wpc[current_task] \in {"running", "putting"}

TaskAlreadyRunning ==
    /\ current_task # 0
    /\ IsAlive(current_task)

\* TaskManager.is_running()
is_running == current_task # 0 /\ IsAlive(current_task)

InitTM ==
    /\ current_task = 0
    /\ cancel_flag = FALSE
    /\ result_queue = <<>>
    /\ tm_ret = <<>>
    /\ tm_caller = <<>>
    /\ ignores = [t \in Calls |-> FALSE]
    /\ wpc = [t \in Calls |-> "none"]
    /\ wstatus = [t \in Calls |-> "none"]
    /\ early = [t \in Calls |-> FALSE]
    /\ cancelled = {}
    /\ mpc = [t \in Calls |-> "none"]
    /\ invoked = <<>>

\* threads from which run_task can be called: the UI thread, or a handler
\* that is executing (a handler runs inside check_result on a Timer thread)
RunTaskCallers == {MainThread} \cup {TimerThread(m) : m \in {c \in Calls : mpc[c] = "handler"}}

\* run_task(task_func, on_complete, on_error), both handlers supplied.
\* ign: whether task_func ignores the cancel flag it is passed.
RunTask(caller, ign) ==
    /\ UNCHANGED notTM
    /\ Len(tm_ret) < MaxCalls
    /\ caller \in RunTaskCallers
    /\ tm_caller' = Append(tm_caller, caller)
    /\ IF TaskAlreadyRunning
       THEN /\ tm_ret' = Append(tm_ret, FALSE)
            /\ UNCHANGED <<current_task, cancel_flag, result_queue, ignores,
                           wpc, wstatus, early, cancelled, mpc, invoked>>
       ELSE LET c == Len(tm_ret) + 1 IN
            /\ cancel_flag' = FALSE
            /\ current_task' = c
            /\ wpc' = [wpc EXCEPT ![c] = "running"]
            /\ ignores' = [ignores EXCEPT ![c] = ign]
            /\ mpc' = [mpc EXCEPT ![c] = "timer"]
            /\ tm_ret' = Append(tm_ret, TRUE)
            /\ UNCHANGED <<result_queue, wstatus, early, cancelled, invoked>>

\* wrapper: task_func(self.cancel_flag) runs to its end and returns (st =
\* "success") or raises an Exception (st = "error")
WorkEnds(t, st) ==
    /\ UNCHANGED notTM
    /\ wpc[t] = "running"
    /\ wpc' = [wpc EXCEPT ![t] = "putting"]
    /\ wstatus' = [wstatus EXCEPT ![t] = st]
    /\ UNCHANGED <<current_task, cancel_flag, result_queue, tm_ret, tm_caller,
                   ignores, early, cancelled, mpc, invoked>>

\* wrapper: a cooperative task_func polls the flag, finds it set and ends
\* early, by returning or by raising
WorkSeesCancel(t, st) ==
    /\ UNCHANGED notTM
    /\ wpc[t] = "running"
    /\ ~ignores[t]
    /\ cancel_flag
    /\ wpc' = [wpc EXCEPT ![t] = "putting"]
    /\ wstatus' = [wstatus EXCEPT ![t] = st]
    /\ early' = [early EXCEPT ![t] = TRUE]
    /\ UNCHANGED <<current_task, cancel_flag, result_queue, tm_ret, tm_caller,
                   ignores, cancelled, mpc, invoked>>

\* wrapper: self.result_queue.put((status, value)); the value of task t is
\* named t, so that a value tells which task produced it
WorkerPut(t) ==
    /\ UNCHANGED notTM
    /\ wpc[t] = "putting"
    /\ result_queue' = Append(result_queue, [status |-> wstatus[t], value |-> t])
    /\ wpc' = [wpc EXCEPT ![t] = "exiting"]
    /\ UNCHANGED <<current_task, cancel_flag, tm_ret, tm_caller, ignores,
                   wstatus, early, cancelled, mpc, invoked>>

\* the worker thread ends after wrapper has returned
WorkerExit(t) ==
    /\ UNCHANGED notTM
    /\ wpc[t] = "exiting"
    /\ wpc' = [wpc EXCEPT ![t] = "dead"]
    /\ UNCHANGED <<current_task, cancel_flag, result_queue, tm_ret, tm_caller,
                   ignores, wstatus, early, cancelled, mpc, invoked>>

\* the handler check_result calls for a dequeued item
HandlerKind(status) == IF status = "success" THEN "complete" ELSE "error"

\* check_result on a Timer thread of monitor m: get_nowait(); an item is
\* handed to on_complete / on_error of call m, queue.Empty leads to the
\* is_alive test
TimerFire(m) ==
    /\ UNCHANGED notTM
    /\ mpc[m] = "timer"
    /\ IF result_queue # <<>>
       THEN /\ result_queue' = Tail(result_queue)
            /\ invoked' = Append(invoked,
                    [handler |-> m,
                     kind    |-> HandlerKind(Head(result_queue).status),
                     value   |-> Head(result_queue).value,
                     thread  |-> TimerThread(m)])
            /\ mpc' = [mpc EXCEPT ![m] = "handler"]
       ELSE /\ mpc' = [mpc EXCEPT ![m] = "empty"]
            /\ UNCHANGED <<result_queue, invoked>>
    /\ UNCHANGED <<current_task, cancel_flag, tm_ret, tm_caller, ignores,
                   wpc, wstatus, early, cancelled>>

\* check_result, except queue.Empty: poll again after 100 ms only if
\* self.current_task is alive
CheckAlive(m) ==
    /\ UNCHANGED notTM
    /\ mpc[m] = "empty"
    /\ mpc' = [mpc EXCEPT ![m] = IF current_task # 0 /\ IsAlive(current_task)
                                 THEN "timer" ELSE "done"]
    /\ UNCHANGED <<current_task, cancel_flag, result_queue, tm_ret, tm_caller,
                   ignores, wpc, wstatus, early, cancelled, invoked>>

\* the handler returns and the Timer thread ends
HandlerReturn(m) ==
    /\ UNCHANGED notTM
    /\ mpc[m] = "handler"
    /\ mpc' = [mpc EXCEPT ![m] = "done"]
    /\ UNCHANGED <<current_task, cancel_flag, result_queue, tm_ret, tm_caller,
                   ignores, wpc, wstatus, early, cancelled, invoked>>

\* cancel_current_task(): self.cancel_flag.set()
CancelCurrentTask ==
    /\ UNCHANGED notTM
    /\ cancel_flag' = TRUE
    /\ cancelled' = IF current_task # 0 /\ wpc[current_task] = "running"
                    THEN cancelled \cup {current_task} ELSE cancelled
    /\ UNCHANGED <<current_task, result_queue, tm_ret, tm_caller, ignores,
                   wpc, wstatus, early, mpc, invoked>>

NextTM ==
    \/ \E caller \in RunTaskCallers, ign \in BOOLEAN : RunTask(caller, ign)
    \/ \E t \in Calls, st \in {"success", "error"} : WorkEnds(t, st)
    \/ \E t \in Calls, st \in {"success", "error"} : WorkSeesCancel(t, st)
    \/ \E t \in Calls : WorkerPut(t)
    \/ \E t \in Calls : WorkerExit(t)
    \/ \E m \in Calls : TimerFire(m)
    \/ \E m \in Calls : CheckAlive(m)
    \/ \E m \in Calls : HandlerReturn(m)
    \/ CancelCurrentTask

\* ------------------------------------------------------------------------
\* ChatBotTab (src/Modules/ChatBotTab/ChatbotTab.py)
\* ------------------------------------------------------------------------

\* "Keep only the last 10 messages"
MaxHistory == 10

Turns == 1..MaxTurns

\* strings are sequences of one-character strings
Space == " "

\* self.tokenizer.eos_token, one element of the input
EOS == "<eos>"

Digit(n) == <<"1", "2", "3", "4", "5", "6", "7", "8", "9">>[n]

\* the fallback of get_bot_response for an empty reply
DefaultResponse == <<"?">>

\* the text of the entry at the n-th send: nothing, blanks only, or a message
\* with blanks around it
RawTexts(n) == {<<>>, <<Space>>, <<Space, "u", Digit(n), Space>>}

\* what decode can return in turn w: a reply, and in the first turn also
\* blanks only
RawResponses(w) ==
    IF w = 1 THEN {<<Space>>, <<"r", Digit(w), Space>>} ELSE {<<"r", Digit(w), Space>>}

RECURSIVE LStrip(_)
LStrip(str) ==
    IF str # <<>> /\ Head(str) = Space THEN LStrip(Tail(str)) ELSE str

RECURSIVE RStrip(_)
RStrip(str) ==
    IF str # <<>> /\ str[Len(str)] = Space
    THEN RStrip(SubSeq(str, 1, Len(str) - 1)) ELSE str

\* str.strip()
Strip(str) == RStrip(LStrip(str))

\* lst[-n:]
LastN(lst, n) ==
    IF Len(lst) <= n THEN lst ELSE SubSeq(lst, Len(lst) - n + 1, Len(lst))

\* " ".join(lst)
RECURSIVE Join(_)
Join(lst) ==
    IF lst = <<>> THEN <<>>
    ELSE IF Len(lst) = 1 THEN lst[1]
    ELSE lst[1] \o <<Space>> \o Join(Tail(lst))

\* " ".join(self.chat_history) + self.tokenizer.eos_token
BuildPrompt(lst) == Join(lst) \o <<EOS>>

\* utterances of the turns completed before a behaviour starts
PreUser(k) == <<"p", Digit(k)>>

PreReply(k) == <<"q", Digit(k)>>

\* self.chat_history after j turns that each ran alone and succeeded: the
\* user message is appended, the log is cut to its last 10 entries, the
\* reply is appended
RECURSIVE LogAfter(_)
LogAfter(j) ==
    IF j = 0 THEN <<>>
    ELSE Append(LastN(Append(LogAfter(j - 1), PreUser(j)), MaxHistory), PreReply(j))

\* every utterance appended in those j turns
RECURSIVE SaidAfter(_)
SaidAfter(j) ==
    IF j = 0 THEN <<>> ELSE SaidAfter(j - 1) \o <<PreUser(j), PreReply(j)>>

\* the tab right after construction: load_model has just been started
InitChatFresh ==
    /\ chat_history = <<>>
    /\ said = <<>>
    /\ model_loaded = FALSE
    /\ device_set = FALSE
    /\ lpc = "loading"
    /\ send_enabled = FALSE
    /\ typing_orphans = FALSE
    /\ turns = 0
    /\ cpc = [w \in Turns |-> "none"]
    /\ cmsg = [w \in Turns |-> <<>>]

\* the tab after j turns, idle: the model is loaded and the last
\* display_response has run
InitChatIdle(j) ==
    /\ chat_history = LogAfter(j)
    /\ said = SaidAfter(j)
    /\ model_loaded = TRUE
    /\ device_set = TRUE
    /\ lpc = "done"
    /\ send_enabled = TRUE
    /\ typing_orphans = FALSE
    /\ turns = 0
    /\ cpc = [w \in Turns |-> "none"]
    /\ cmsg = [w \in Turns |-> <<>>]

\* the tab after j turns when the first message was sent before enable_chat
\* ran and every later one while the previous worker was still in flight:
\* the last display_response has run and removed the indicator of the
\* worker that has just been started and has not yet touched the log
InitChatOverlapped(j) ==
    /\ chat_history = LogAfter(j)
    /\ said = SaidAfter(j)
    /\ model_loaded = TRUE
    /\ device_set = TRUE
    /\ lpc = "done"
    /\ send_enabled = TRUE
    /\ typing_orphans = TRUE
    /\ turns = 1
    /\ cpc = [w \in Turns |-> IF w = 1 THEN "append" ELSE "none"]
    /\ cmsg = [w \in Turns |-> IF w = 1 THEN <<"u", Digit(1)>> ELSE <<>>]

\* the locals of the workers, which no worker has set yet
InitChatLocals ==
    /\ ui_queue = <<>>
    /\ entry_enabled = TRUE
    /\ clear_enabled = TRUE
    /\ typing_attr = FALSE
    /\ cslice = [w \in Turns |-> <<>>]
    /\ prompt = [w \in Turns |-> <<>>]
    /\ plog = [w \in Turns |-> <<>>]

InitChatConstructed == InitChatFresh /\ InitChatLocals

InitChat ==
    /\ \/ InitChatFresh
       \/ \E j \in 1..MaxPreTurns : InitChatIdle(j)
       \/ \E j \in 1..MaxPreTurns : InitChatOverlapped(j)
    /\ InitChatLocals

\* load_model: ImportError, or an exception while loading; model_loaded
\* stays False and only messages are shown
LoadFails ==
    /\ UNCHANGED notChat
    /\ lpc = "loading"
    /\ lpc' = "done"
    /\ UNCHANGED <<chatLog, model_loaded, device_set, ui_queue, chatButtons,
                   chatTyping, turns, cpc, chatLocals>>

\* load_model: self.model_loaded = True
LoadSetsLoaded ==
    /\ UNCHANGED notChat
    /\ lpc = "loading"
    /\ lpc' = "loaded"
    /\ model_loaded' = TRUE
    /\ UNCHANGED <<chatLog, device_set, ui_queue, chatButtons,
                   chatTyping, turns, cpc, chatLocals>>

\* load_model: self.device = device
LoadSetsDevice ==
    /\ UNCHANGED notChat
    /\ lpc = "loaded"
    /\ lpc' = "device"
    /\ device_set' = TRUE
    /\ UNCHANGED <<chatLog, model_loaded, ui_queue, chatButtons,
                   chatTyping, turns, cpc, chatLocals>>

\* load_model: self.parent_frame.after(0, self.enable_chat)
LoadQueuesEnable ==
    /\ UNCHANGED notChat
    /\ lpc = "device"
    /\ lpc' = "done"
    /\ ui_queue' = Append(ui_queue, "enable_chat")
    /\ UNCHANGED <<chatLog, model_loaded, device_set, chatButtons,
                   chatTyping, turns, cpc, chatLocals>>

\* send_message, run by <Return> in the entry or by the Send button, with
\* raw the text of the entry: text can be typed only while the entry is
\* enabled, and send_message empties the entry before it disables it
SendMessage(raw) ==
    /\ UNCHANGED notChat
    /\ entry_enabled \/ send_enabled
    /\ raw # <<>> => entry_enabled
    /\ turns < MaxTurns
    /\ LET message == Strip(raw) IN
       IF message = <<>> \/ ~model_loaded
       THEN UNCHANGED chatVars
       ELSE /\ send_enabled' = FALSE
            /\ entry_enabled' = FALSE
            /\ clear_enabled' = FALSE
            /\ typing_attr' = TRUE
            /\ typing_orphans' = (typing_orphans \/ typing_attr)
            /\ turns' = turns + 1
            /\ cpc' = [cpc EXCEPT ![turns + 1] = "append"]
            /\ cmsg' = [cmsg EXCEPT ![turns + 1] = message]
            /\ UNCHANGED <<chatLog, model_loaded, device_set, lpc, ui_queue,
                           cslice, prompt, plog>>

\* clear_chat, run by the Clear button; it destroys every frame of the chat
\* area
ClearChat ==
    /\ UNCHANGED notChat
    /\ clear_enabled
    /\ chat_history' = <<>>
    /\ said' = <<>>
    /\ typing_orphans' = FALSE
    /\ UNCHANGED <<model_loaded, device_set, lpc, ui_queue, chatButtons,
                   typing_attr, turns, cpc, chatLocals>>

\* get_bot_response: self.chat_history.append(user_message)
AppendUser(w) ==
    /\ UNCHANGED notChat
    /\ cpc[w] = "append"
    /\ chat_history' = Append(chat_history, cmsg[w])
    /\ said' = Append(said, cmsg[w])
    /\ cpc' = [cpc EXCEPT ![w] = "trunc"]
    /\ UNCHANGED <<model_loaded, device_set, lpc, ui_queue, chatButtons,
                   chatTyping, turns, chatLocals>>

\* get_bot_response: if len(self.chat_history) > 10, evaluate
\* self.chat_history[-10:]
TruncRead(w) ==
    /\ UNCHANGED notChat
    /\ cpc[w] = "trunc"
    /\ IF Len(chat_history) > MaxHistory
       THEN /\ cslice' = [cslice EXCEPT ![w] = LastN(chat_history, MaxHistory)]
            /\ cpc' = [cpc EXCEPT ![w] = "store"]
       ELSE /\ cpc' = [cpc EXCEPT ![w] = "encode"]
            /\ UNCHANGED cslice
    /\ UNCHANGED <<chatLog, model_loaded, device_set, lpc, ui_queue,
                   chatButtons, chatTyping, turns, cmsg, prompt, plog>>

\* get_bot_response: self.chat_history = <the slice>
TruncStore(w) ==
    /\ UNCHANGED notChat
    /\ cpc[w] = "store"
    /\ chat_history' = cslice[w]
    /\ UNCHANGED said
    /\ cpc' = [cpc EXCEPT ![w] = "encode"]
    /\ UNCHANGED <<model_loaded, device_set, lpc, ui_queue, chatButtons,
                   chatTyping, turns, chatLocals>>

\* what the worker of turn w leaves behind when it ends
EndOfWorker(w) ==
    /\ cpc' = [cpc EXCEPT ![w] = "done"]
    /\ cmsg' = [cmsg EXCEPT ![w] = <<>>]
    /\ cslice' = [cslice EXCEPT ![w] = <<>>]
    /\ prompt' = [prompt EXCEPT ![w] = <<>>]
    /\ plog' = [plog EXCEPT ![w] = <<>>]

\* get_bot_response: build the input string and encode it; .to(self.device)
\* raises AttributeError while load_model has not assigned self.device, and
\* the except clause then queues display_error
Encode(w) ==
    /\ UNCHANGED notChat
    /\ cpc[w] = "encode"
    /\ IF device_set
       THEN /\ prompt' = [prompt EXCEPT ![w] = BuildPrompt(chat_history)]
            /\ plog' = [plog EXCEPT ![w] = chat_history]
            /\ cpc' = [cpc EXCEPT ![w] = "generate"]
            /\ UNCHANGED <<ui_queue, cmsg, cslice>>
       ELSE /\ ui_queue' = Append(ui_queue, "display_error")
            /\ EndOfWorker(w)
    /\ UNCHANGED <<chatLog, model_loaded, device_set, lpc, chatButtons,
                   chatTyping, turns>>

\* get_bot_response: response.strip(), with the fallback for an empty reply
Response(raw) == IF Strip(raw) = <<>> THEN DefaultResponse ELSE Strip(raw)

\* get_bot_response: generate returns; the reply is appended to the log and
\* display_response is queued
Generate(w, raw) ==
    /\ UNCHANGED notChat
    /\ cpc[w] = "generate"
    /\ chat_history' = Append(chat_history, Response(raw))
    /\ said' = Append(said, Response(raw))
    /\ ui_queue' = Append(ui_queue, "display_response")
    /\ EndOfWorker(w)
    /\ UNCHANGED <<model_loaded, device_set, lpc, chatButtons, chatTyping,
                   turns>>

\* get_bot_response: generate or decode raises; display_error is queued
GenerateFails(w) ==
    /\ UNCHANGED notChat
    /\ cpc[w] = "generate"
    /\ ui_queue' = Append(ui_queue, "display_error")
    /\ EndOfWorker(w)
    /\ UNCHANGED <<chatLog, model_loaded, device_set, lpc, chatButtons,
                   chatTyping, turns>>

\* the UI thread runs the oldest queued callback: enable_chat,
\* display_response or display_error
RunCallback ==
    /\ UNCHANGED notChat
    /\ ui_queue # <<>>
    /\ ui_queue' = Tail(ui_queue)
    /\ send_enabled' = TRUE
    /\ entry_enabled' = TRUE
    /\ IF Head(ui_queue) = "enable_chat"
       THEN UNCHANGED <<clear_enabled, typing_attr>>
       ELSE /\ clear_enabled' = TRUE
            /\ typing_attr' = FALSE
    /\ UNCHANGED <<chatLog, model_loaded, device_set, lpc, typing_orphans,
                   turns, cpc, chatLocals>>

NextChat ==
    \/ LoadFails
    \/ LoadSetsLoaded
    \/ LoadSetsDevice
    \/ LoadQueuesEnable
    \/ \E raw \in RawTexts(turns + 1) : SendMessage(raw)
    \/ ClearChat
    \/ \E w \in Turns : AppendUser(w)
    \/ \E w \in Turns : TruncRead(w)
    \/ \E w \in Turns : TruncStore(w)
    \/ \E w \in Turns : Encode(w)
    \/ \E w \in Turns : \E raw \in RawResponses(w) : Generate(w, raw)
    \/ \E w \in Turns : GenerateFails(w)
    \/ RunCallback

\* ------------------------------------------------------------------------
\* SortPicturesTab (src/Modules/SortPituresTab/SortPicturesTab.py)
\* ------------------------------------------------------------------------

Runs == 1..MaxRuns

\* the directory the user chooses as input, and the image files that are
\* in it when the program starts (stems; all have the same extension)
InputFolders == {"in1"}

InitialFiles(folder) == <<"a", "b">>

\* [f for f in input_path.iterdir() if f.suffix.lower() in image_extensions]
ImageFiles(folder) == input_files[folder]

\* the content of a file is named after its directory and stem
Content(folder, stem) == <<folder, stem>>

\* what the detector answers for an image: people are on a, none on b
HasPeople(stem) == stem = "a"

\* the directories chosen for pictures with and without people
WithFolder == "with"

WithoutFolder == "without"

DestFolders == {WithFolder, WithoutFolder}

\* Path(dest_folder) / image_file.name
PlainName(stem) == <<stem, 0>>

\* Path(dest_folder) / f"{image_file.stem}_{counter}{image_file.suffix}"
NumberedName(stem, n) == <<stem, n>>

\* dest_path.exists()
Exists(folder, name) == name \in DOMAIN dest[folder]

\* shutil.copy2(image_file, dest_path): the file at dest_path is created
\* or replaced
CopyTo(folder, name, content) ==
    [dest EXCEPT ![folder] =
        [n \in DOMAIN dest[folder] \cup {name} |->
            IF n = name THEN content ELSE dest[folder][n]]]

\* the kinds of status lines that report a failed setup; status_log keeps
\* the lines of these kinds only
SetupFailureLine(line) == line \in {"setup_error", "install_hint"}

\* log_status(message) for each of lines, in order; a line is modelled by
\* its kind
LogStatus(lines) == status_log' = status_log \o SelectSeq(lines, SetupFailureLine)

\* the kinds of status lines that report the failure of one file
FileErrorLine(line) == line \in {"unreadable", "item_error"}

\* log_status called by worker w inside the loop
LogStatusBy(w, lines) ==
    /\ LogStatus(lines)
    /\ error_lines' = [error_lines EXCEPT ![w] =
                          error_lines[w] + Len(SelectSeq(lines, FileErrorLine))]

\* the lines sort_pictures logs while it initializes the detection backend
SetupLines(m, ok) ==
    <<"starting">> \o
    (IF m = "haar"
     THEN (IF ok THEN <<>> ELSE <<"setup_error">>)
     ELSE (IF ok THEN <<"loading", "loaded">>
                 ELSE <<"loading", "setup_error", "install_hint">>))

\* the lines of the summary
SummaryLines(errors) ==
    <<"rule", "complete", "method", "with", "without">> \o
    (IF errors > 0 THEN <<"errors">> ELSE <<>>) \o <<"rule">>

InitSort ==
    /\ is_sorting = FALSE
    /\ start_enabled = TRUE
    /\ input_folder = ""
    /\ with_people_folder = ""
    /\ without_people_folder = ""
    /\ detection_method = "yolo"
    /\ status_log = <<>>
    /\ dest = [f \in DestFolders |-> <<>>]
    /\ input_files = [f \in InputFolders |-> InitialFiles(f)]
    /\ runs = 0
    /\ spc = [w \in Runs |-> "none"]
    /\ method = [w \in Runs |-> ""]
    /\ sfolder = [w \in Runs |-> ""]
    /\ image_files = [w \in Runs |-> <<>>]
    /\ idx = [w \in Runs |-> 0]
    /\ handled = [w \in Runs |-> 0]
    /\ with_people_count = [w \in Runs |-> 0]
    /\ without_people_count = [w \in Runs |-> 0]
    /\ error_count = [w \in Runs |-> 0]
    /\ error_lines = [w \in Runs |-> 0]
    /\ dest_folder = [w \in Runs |-> ""]
    /\ dest_path = [w \in Runs |-> <<>>]
    /\ counter = [w \in Runs |-> 0]

\* browse_folder(self.input_folder) with a directory chosen in the dialog
BrowseInput(folder) ==
    /\ UNCHANGED notSort
    /\ input_folder # folder
    /\ input_folder' = folder
    /\ UNCHANGED <<is_sorting, start_enabled, with_people_folder,
                   without_people_folder, detection_method, status_log,
                   sortDisk, runs, spc, sortLocals, sortCounts, sortTarget>>

\* browse_folder for the two destination directories
BrowseDestinations ==
    /\ UNCHANGED notSort
    /\ with_people_folder = ""
    /\ with_people_folder' = WithFolder
    /\ without_people_folder' = WithoutFolder
    /\ UNCHANGED <<is_sorting, start_enabled, input_folder, detection_method,
                   status_log, sortDisk, runs, spc, sortLocals, sortCounts,
                   sortTarget>>

\* the detection method radio buttons
SelectMethod(m) ==
    /\ UNCHANGED notSort
    /\ detection_method # m
    /\ detection_method' = m
    /\ UNCHANGED <<is_sorting, start_enabled, input_folder, with_people_folder,
                   without_people_folder, status_log, sortDisk, runs, spc,
                   sortLocals, sortCounts, sortTarget>>

\* start_sorting, run by the Start button: the status log is cleared and
\* the worker thread started
StartSorting ==
    /\ UNCHANGED notSort
    /\ start_enabled
    /\ runs < MaxRuns
    /\ IF \/ is_sorting
          \/ input_folder = ""
          \/ with_people_folder = ""
          \/ without_people_folder = ""
       THEN UNCHANGED sortVars
       ELSE /\ is_sorting' = TRUE
            /\ start_enabled' = FALSE
            /\ status_log' = <<>>
            /\ runs' = runs + 1
            /\ spc' = [spc EXCEPT ![runs + 1] = "init"]
            /\ UNCHANGED <<input_folder, with_people_folder, without_people_folder,
                           detection_method, sortDisk, sortLocals, sortCounts,
                           sortTarget>>

\* finish_sorting
FinishSorting ==
    /\ is_sorting' = FALSE
    /\ start_enabled' = TRUE

\* sort_pictures: read the method and initialize the detection backend; when
\* the cascade is empty or loading YOLO raises, log, finish_sorting(), return
SortInit(w, ok) ==
    /\ UNCHANGED notSort
    /\ spc[w] = "init"
    /\ method' = [method EXCEPT ![w] = detection_method]
    /\ LogStatus(SetupLines(detection_method, ok))
    /\ IF ok
       THEN /\ spc' = [spc EXCEPT ![w] = "list"]
            /\ UNCHANGED <<is_sorting, start_enabled>>
       ELSE /\ spc' = [spc EXCEPT ![w] = "return"]
            /\ FinishSorting
    /\ UNCHANGED <<input_folder, with_people_folder, without_people_folder,
                   detection_method, sortDisk, runs, sfolder, image_files, idx,
                   sortCounts, sortTarget>>

\* what a worker leaves behind when it ends
EndOfSort(w) ==
    /\ spc' = [spc EXCEPT ![w] = "done"]
    /\ method' = [method EXCEPT ![w] = ""]
    /\ sfolder' = [sfolder EXCEPT ![w] = ""]
    /\ image_files' = [image_files EXCEPT ![w] = <<>>]
    /\ idx' = [idx EXCEPT ![w] = 0]
    /\ handled' = [handled EXCEPT ![w] = 0]
    /\ with_people_count' = [with_people_count EXCEPT ![w] = 0]
    /\ without_people_count' = [without_people_count EXCEPT ![w] = 0]
    /\ error_count' = [error_count EXCEPT ![w] = 0]
    /\ error_lines' = [error_lines EXCEPT ![w] = 0]
    /\ dest_folder' = [dest_folder EXCEPT ![w] = ""]
    /\ dest_path' = [dest_path EXCEPT ![w] = <<>>]
    /\ counter' = [counter EXCEPT ![w] = 0]

\* sort_pictures, finally: finish_sorting(); reached by the return of the
\* setup failure, after the summary and after a fatal error
SortFinally(w) ==
    /\ UNCHANGED notSort
    /\ spc[w] \in {"return", "finally"}
    /\ FinishSorting
    /\ EndOfSort(w)
    /\ UNCHANGED <<input_folder, with_people_folder, without_people_folder,
                   detection_method, status_log, sortDisk, runs>>

\* position after the loop is done with file number i - 1 of n
LoopPc(i, n) == IF i > n THEN "summary" ELSE "item"

\* listing raises and the worker ends without a finally clause:
\* finish_sorting is not called
SortListNoFinally(w, ok) ==
    /\ UNCHANGED notSort
    /\ spc[w] = "list"
    /\ IF ok
       THEN /\ sfolder' = [sfolder EXCEPT ![w] = input_folder]
            /\ image_files' = [image_files EXCEPT ![w] = ImageFiles(input_folder)]
            /\ idx' = [idx EXCEPT ![w] = 1]
            /\ spc' = [spc EXCEPT ![w] = LoopPc(1, Len(ImageFiles(input_folder)))]
            /\ LogStatus(<<"found">>)
            /\ UNCHANGED <<method, sortCounts, sortTarget>>
       ELSE /\ EndOfSort(w)
            /\ LogStatus(<<"fatal">>)
    /\ UNCHANGED <<sortUI, sortDisk, runs>>

\* sort_pictures: list the image files of the input directory and reset the
\* counters; listing raises when the directory cannot be read, which the
\* outer except clause logs and shows as a fatal error
SortList(w, ok) ==
    /\ UNCHANGED notSort
    /\ spc[w] = "list"
    /\ IF ok
       THEN /\ sfolder' = [sfolder EXCEPT ![w] = input_folder]
            /\ image_files' = [image_files EXCEPT ![w] = ImageFiles(input_folder)]
            /\ idx' = [idx EXCEPT ![w] = 1]
            /\ spc' = [spc EXCEPT ![w] = LoopPc(1, Len(ImageFiles(input_folder)))]
            /\ LogStatus(<<"found">>)
       ELSE /\ spc' = [spc EXCEPT ![w] = "finally"]
            /\ LogStatus(<<"fatal">>)
            /\ UNCHANGED <<sfolder, image_files, idx>>
    /\ UNCHANGED <<sortUI, sortDisk, runs, method, sortCounts, sortTarget>>

\* the loop moves on to the next file
NextFile(w) ==
    /\ idx' = [idx EXCEPT ![w] = idx[w] + 1]
    /\ handled' = [handled EXCEPT ![w] = handled[w] + 1]
    /\ spc' = [spc EXCEPT ![w] = LoopPc(idx[w] + 1, Len(image_files[w]))]

\* sort_pictures, one file, Haar only: cv2.imread returns None; the file
\* is logged and counted as an error, continue
ItemUnreadable(w) ==
    /\ UNCHANGED notSort
    /\ spc[w] = "item"
    /\ method[w] = "haar"
    /\ LogStatusBy(w, <<"unreadable">>)
    /\ error_count' = [error_count EXCEPT ![w] = error_count[w] + 1]
    /\ NextFile(w)
    /\ UNCHANGED <<sortUI, sortDisk, runs, method, sfolder, image_files,
                   with_people_count, without_people_count, sortTarget>>

\* sort_pictures, one file: the detector raises; caught by the except
\* clause of the loop body
ItemDetectorRaises(w) ==
    /\ UNCHANGED notSort
    /\ spc[w] = "item"
    /\ LogStatusBy(w, <<"item_error">>)
    /\ error_count' = [error_count EXCEPT ![w] = error_count[w] + 1]
    /\ NextFile(w)
    /\ UNCHANGED <<sortUI, sortDisk, runs, method, sfolder, image_files,
                   with_people_count, without_people_count, sortTarget>>

\* sort_pictures, one file: the detector answers; the destination is chosen,
\* its counter incremented and dest_path set to the plain name
ItemClassified(w) ==
    /\ UNCHANGED notSort
    /\ spc[w] = "item"
    /\ IF HasPeople(image_files[w][idx[w]])
       THEN /\ dest_folder' = [dest_folder EXCEPT ![w] = with_people_folder]
            /\ with_people_count' =
                  [with_people_count EXCEPT ![w] = with_people_count[w] + 1]
            /\ UNCHANGED without_people_count
       ELSE /\ dest_folder' = [dest_folder EXCEPT ![w] = without_people_folder]
            /\ without_people_count' =
                  [without_people_count EXCEPT ![w] = without_people_count[w] + 1]
            /\ UNCHANGED with_people_count
    /\ dest_path' = [dest_path EXCEPT ![w] = PlainName(image_files[w][idx[w]])]
    /\ counter' = [counter EXCEPT ![w] = 1]
    /\ spc' = [spc EXCEPT ![w] = "exists"]
    /\ UNCHANGED <<sortUI, status_log, sortDisk, runs, sortLocals, handled,
                   error_count, error_lines>>

\* sort_pictures: one test of while dest_path.exists()
CheckExists(w) ==
    /\ UNCHANGED notSort
    /\ spc[w] = "exists"
    /\ IF Exists(dest_folder[w], dest_path[w])
       THEN /\ dest_path' = [dest_path EXCEPT ![w] =
                                NumberedName(dest_path[w][1], counter[w])]
            /\ counter' = [counter EXCEPT ![w] = counter[w] + 1]
            /\ UNCHANGED spc
       ELSE /\ spc' = [spc EXCEPT ![w] = "copy"]
            /\ UNCHANGED <<dest_path, counter>>
    /\ UNCHANGED <<sortUI, status_log, sortDisk, runs, sortLocals, sortCounts,
                   dest_folder>>

\* the file is moved instead of copied (as Modules/sort_pictures.py does):
\* it appears at dest_path and leaves the input directory
MoveFile(w) ==
    /\ UNCHANGED notSort
    /\ spc[w] = "copy"
    /\ dest' = CopyTo(dest_folder[w], dest_path[w],
                      Content(sfolder[w], image_files[w][idx[w]]))
    /\ input_files' = [input_files EXCEPT ![sfolder[w]] =
                          SelectSeq(@, LAMBDA f : f # image_files[w][idx[w]])]
    /\ LogStatusBy(w, <<"sorted">>)
    /\ NextFile(w)
    /\ UNCHANGED <<sortUI, runs, method, sfolder, image_files,
                   with_people_count, without_people_count, error_count,
                   sortTarget>>

\* sort_pictures: shutil.copy2 succeeds and the status line is logged
CopyFile(w) ==
    /\ UNCHANGED notSort
    /\ spc[w] = "copy"
    /\ dest' = CopyTo(dest_folder[w], dest_path[w],
                      Content(sfolder[w], image_files[w][idx[w]]))
    /\ LogStatusBy(w, <<"sorted">>)
    /\ NextFile(w)
    /\ UNCHANGED <<sortUI, input_files, runs, method, sfolder, image_files,
                   with_people_count, without_people_count, error_count,
                   sortTarget>>

\* shutil.copy2 raises and nothing in the loop body catches it: the outer
\* except clause logs a fatal error and the batch ends
CopyRaisesAborts(w) ==
    /\ UNCHANGED notSort
    /\ spc[w] = "copy"
    /\ LogStatus(<<"fatal">>)
    /\ spc' = [spc EXCEPT ![w] = "finally"]
    /\ UNCHANGED <<sortUI, sortDisk, runs, sortLocals, sortCounts, sortTarget>>

\* sort_pictures: shutil.copy2 raises; caught by the except clause of the
\* loop body
CopyRaises(w) ==
    /\ UNCHANGED notSort
    /\ spc[w] = "copy"
    /\ LogStatusBy(w, <<"item_error">>)
    /\ error_count' = [error_count EXCEPT ![w] = error_count[w] + 1]
    /\ NextFile(w)
    /\ UNCHANGED <<sortUI, sortDisk, runs, method, sfolder, image_files,
                   with_people_count, without_people_count, sortTarget>>

\* sort_pictures: the summary is logged and shown until the user closes it
SortSummary(w) ==
    /\ UNCHANGED notSort
    /\ spc[w] = "summary"
    /\ LogStatus(SummaryLines(error_count[w]))
    /\ spc' = [spc EXCEPT ![w] = "finally"]
    /\ UNCHANGED <<sortUI, sortDisk, runs, sortLocals, sortCounts, sortTarget>>

NextSort ==
    \/ \E folder \in InputFolders : BrowseInput(folder)
    \/ BrowseDestinations
    \/ \E m \in {"yolo", "haar"} : SelectMethod(m)
    \/ StartSorting
    \/ \E w \in Runs, ok \in BOOLEAN : SortInit(w, ok)
    \/ \E w \in Runs : SortFinally(w)
    \/ \E w \in Runs, ok \in BOOLEAN : SortList(w, ok)
    \/ \E w \in Runs : ItemUnreadable(w)
    \/ \E w \in Runs : ItemDetectorRaises(w)
    \/ \E w \in Runs : ItemClassified(w)
    \/ \E w \in Runs : CheckExists(w)
    \/ \E w \in Runs : CopyFile(w)
    \/ \E w \in Runs : CopyRaises(w)
    \/ \E w \in Runs : SortSummary(w)

\* ------------------------------------------------------------------------
\* Specifications
\* ------------------------------------------------------------------------

\* TaskManager alone: the chat tab stays as constructed
InitForTM == InitTM /\ InitChatConstructed /\ InitSort

SpecTM == InitForTM /\ [][NextTM]_vars

\* the chat tab alone: no TaskManager call is made
InitForChat == InitTM /\ InitChat /\ InitSort

SpecChat == InitForChat /\ [][NextChat]_vars

\* the chat tab alone, from its construction; in the first MaxTurns turns
\* the log stays below MaxHistory entries, so the cut log is never stored
InitForChatStart == InitTM /\ InitChatConstructed /\ InitSort

NextChatStart ==
    \/ LoadFails
    \/ LoadSetsLoaded
    \/ LoadSetsDevice
    \/ LoadQueuesEnable
    \/ \E raw \in RawTexts(turns + 1) : SendMessage(raw)
    \/ ClearChat
    \/ \E w \in Turns : AppendUser(w)
    \/ \E w \in Turns : TruncRead(w)
    \/ \E w \in Turns : Encode(w)
    \/ \E w \in Turns : \E raw \in RawResponses(w) : Generate(w, raw)
    \/ \E w \in Turns : GenerateFails(w)
    \/ RunCallback

SpecChatStart == InitForChatStart /\ [][NextChatStart]_vars

\* the chat tab once the model is loaded and enable_chat has run, after
\* some turns that each ran alone
InitForChatTurns ==
    /\ InitTM
    /\ \E j \in 1..MaxPreTurns : InitChatIdle(j)
    /\ InitChatLocals
    /\ InitSort

NextChatTurns ==
    \/ \E raw \in RawTexts(turns + 1) : SendMessage(raw)
    \/ ClearChat
    \/ \E w \in Turns : AppendUser(w)
    \/ \E w \in Turns : TruncRead(w)
    \/ \E w \in Turns : TruncStore(w)
    \/ \E w \in Turns : Encode(w)
    \/ \E w \in Turns : \E raw \in RawResponses(w) : Generate(w, raw)
    \/ \E w \in Turns : GenerateFails(w)
    \/ RunCallback

SpecChatTurns == InitForChatTurns /\ [][NextChatTurns]_vars

\* the sort tab alone
InitForSort == InitTM /\ InitChatConstructed /\ InitSort

SpecSort == InitForSort /\ [][NextSort]_vars

\* one batch: Start was just clicked and accepted, the destination
\* directories hold files of earlier batches
PriorDest ==
    {[f \in DestFolders |->
        IF f = WithFolder
        THEN [n \in {NumberedName("a", k) : k \in 0..(i - 1)} |-> Content("in1", "a")]
        ELSE [n \in {NumberedName("b", k) : k \in 0..(j - 1)} |-> Content("in1", "b")]]
     : i \in 0..2, j \in 0..1}

InitBatch ==
    /\ is_sorting = TRUE
    /\ start_enabled = FALSE
    /\ input_folder \in InputFolders
    /\ with_people_folder = WithFolder
    /\ without_people_folder = WithoutFolder
    /\ detection_method \in {"yolo", "haar"}
    /\ status_log = <<>>
    /\ dest \in PriorDest
    /\ input_files = [f \in InputFolders |-> InitialFiles(f)]
    /\ runs = 1
    /\ spc = [w \in Runs |-> IF w = 1 THEN "init" ELSE "none"]
    /\ method = [w \in Runs |-> ""]
    /\ sfolder = [w \in Runs |-> ""]
    /\ image_files = [w \in Runs |-> <<>>]
    /\ idx = [w \in Runs |-> 0]
    /\ handled = [w \in Runs |-> 0]
    /\ with_people_count = [w \in Runs |-> 0]
    /\ without_people_count = [w \in Runs |-> 0]
    /\ error_count = [w \in Runs |-> 0]
    /\ error_lines = [w \in Runs |-> 0]
    /\ dest_folder = [w \in Runs |-> ""]
    /\ dest_path = [w \in Runs |-> <<>>]
    /\ counter = [w \in Runs |-> 0]

InitForBatch == InitTM /\ InitChatConstructed /\ InitBatch

\* the steps of the sort_pictures workers
NextWorker ==
    \/ \E w \in Runs, ok \in BOOLEAN : SortInit(w, ok)
    \/ \E w \in Runs : SortFinally(w)
    \/ \E w \in Runs, ok \in BOOLEAN : SortList(w, ok)
    \/ \E w \in Runs : ItemUnreadable(w)
    \/ \E w \in Runs : ItemDetectorRaises(w)
    \/ \E w \in Runs : ItemClassified(w)
    \/ \E w \in Runs : CheckExists(w)
    \/ \E w \in Runs : CopyFile(w)
    \/ \E w \in Runs : CopyRaises(w)
    \/ \E w \in Runs : SortSummary(w)

\* one batch, during which cancel_current_task may be called; the worker
\* thread keeps being scheduled and the summary dialog is closed
NextBatch ==
    \/ NextWorker
    \/ CancelCurrentTask

SpecBatch == InitForBatch /\ [][NextBatch]_vars /\ WF_vars(NextWorker)

\* ------------------------------------------------------------------------
\* TaskManager: properties
\* ------------------------------------------------------------------------

\* call c was accepted by run_task
Accepted(c) == c <= Len(tm_ret) /\ tm_ret[c]

\* positions in invoked where the outcome of task t was handed to a handler
DeliveriesOf(t) == {i \in DOMAIN invoked : invoked[i].value = t}

\* no worker is alive, no timer is armed and no handler is executing
QuiescentTM ==
    \A c \in Calls : wpc[c] \in {"none", "dead"} /\ mpc[c] \in {"none", "done"}

\* the step is a run_task call
RunTaskCalled == Len(tm_ret') = Len(tm_ret) + 1

\* C1: a run_task call made while the worker of an accepted task is still
\* alive returns False, starts no worker and no monitor, and leaves
\* current_task, the cancel flag and the result queue as they were.
C1_RejectWhileRunning ==
    [][ (RunTaskCalled /\ \E t \in Calls : wpc[t] \in {"running", "putting", "exiting"})
        => /\ tm_ret'[Len(tm_ret')] = FALSE
           /\ wpc' = wpc
           /\ mpc' = mpc
           /\ current_task' = current_task
           /\ cancel_flag' = cancel_flag
           /\ result_queue' = result_queue ]_vars

\* a second call was rejected while the first worker, whose result is
\* pending and whose cancellation was requested, had not ended yet
C1_Witness ==
    /\ tm_ret = <<TRUE, FALSE>>
    /\ wpc[1] = "exiting"
    /\ cancel_flag
    /\ result_queue # <<>>

\* C2: every handler invocation hands a task's outcome to the matching
\* handler of that same task; no outcome is handed over twice; and once all
\* workers and pollers have stopped, every accepted task's outcome has been
\* handed over exactly once.
C2_OutcomeToOwnHandlerOnce ==
    /\ \A i \in DOMAIN invoked :
          /\ invoked[i].handler = invoked[i].value
          /\ invoked[i].kind = HandlerKind(wstatus[invoked[i].value])
    /\ \A t \in Calls : Cardinality(DeliveriesOf(t)) <= 1
    /\ QuiescentTM => \A t \in Calls : Accepted(t) => Cardinality(DeliveriesOf(t)) = 1

\* C3: a run_task call made after the outcome of the latest accepted task
\* has been handed to a handler (from inside that handler or later) returns
\* True.
C3_AcceptedAfterNotification ==
    [][ (RunTaskCalled /\ current_task # 0 /\ DeliveriesOf(current_task) # {})
        => tm_ret'[Len(tm_ret')] = TRUE ]_vars

\* C4: for a task whose work raised, the wrapper puts ('error', e) on the
\* queue; the handlers of that task are invoked only as on_error with that
\* exception, the exception goes to no other handler, and it has been
\* delivered once workers and pollers have stopped.
C4_RaisedGoesToOnError ==
    \A t \in Calls : wstatus[t] = "error" =>
        /\ wpc[t] \in {"exiting", "dead"} =>
              \/ \E k \in DOMAIN result_queue :
                    result_queue[k] = [status |-> "error", value |-> t]
              \/ DeliveriesOf(t) # {}
        /\ \A i \in DOMAIN invoked :
              /\ invoked[i].handler = t =>
                    invoked[i].kind = "error" /\ invoked[i].value = t
              /\ invoked[i].value = t =>
                    invoked[i].kind = "error" /\ invoked[i].handler = t
        /\ QuiescentTM => DeliveriesOf(t) # {}

\* C5: every handler invocation runs on the thread that made the run_task
\* call the handler was passed to.
C5_HandlerOnCallerThread ==
    \A i \in DOMAIN invoked : invoked[i].thread = tm_caller[invoked[i].handler]

\* C6: a step that sets the cancel flag changes nothing else (worker
\* positions, is_running, pending results, pollers), and a task that was
\* running when cancellation was requested and whose work ignores the flag
\* runs to its end and has its outcome handed to its own handler by the time
\* workers and pollers have stopped.
C6_CancelOnlySetsFlag ==
    /\ [][ (cancel_flag' /\ ~cancel_flag)
           => /\ wpc' = wpc
              /\ wstatus' = wstatus
              /\ current_task' = current_task
              /\ result_queue' = result_queue
              /\ mpc' = mpc
              /\ invoked' = invoked ]_vars
    /\ [](\A t \in cancelled : ignores[t] =>
            /\ ~early[t]
            /\ QuiescentTM =>
                  \E i \in DOMAIN invoked :
                      /\ invoked[i].value = t
                      /\ invoked[i].handler = t
                      /\ invoked[i].kind = HandlerKind(wstatus[t]))

\* ------------------------------------------------------------------------
\* ChatBotTab: properties
\* ------------------------------------------------------------------------

\* a worker has appended its user message and has not yet cut the log
MidAppend == \E w \in Turns : cpc[w] \in {"trunc", "store"}

\* C7: whenever no append is half done (message appended, log not yet cut),
\* the conversation log holds at most 10 entries.
C7_LogAtMostTen == ~MidAppend => Len(chat_history) <= 10

\* the entries of lst one after the other with one space between two
\* of them, described by positions: off is where the first entry starts
RECURSIVE EntriesAt(_, _, _)
EntriesAt(str, lst, off) ==
    IF lst = <<>> THEN off = Len(str) + 2
    ELSE /\ off + Len(lst[1]) - 1 <= Len(str)
         /\ SubSeq(str, off, off + Len(lst[1]) - 1) = lst[1]
         /\ Len(lst) > 1 => /\ off + Len(lst[1]) <= Len(str)
                            /\ str[off + Len(lst[1])] = Space
         /\ EntriesAt(str, Tail(lst), off + Len(lst[1]) + 1)

\* C8: when a worker builds the model input, the input is the entries of
\* the log at that moment, in order, separated by single spaces, followed by
\* the EOS token as its last element, and the last entry of that log is the
\* worker's own user message.
C8_PromptIsLogThenEOS ==
    \A w \in Turns : cpc[w] = "generate" =>
        /\ prompt[w] # <<>>
        /\ prompt[w][Len(prompt[w])] = EOS
        /\ EntriesAt(SubSeq(prompt[w], 1, Len(prompt[w]) - 1), plog[w], 1)
        /\ plog[w] # <<>>
        /\ plog[w][Len(plog[w])] = cmsg[w]

\* ------------------------------------------------------------------------
\* SortPicturesTab: properties
\* ------------------------------------------------------------------------

\* the sum of the three counters of worker w
CountSum(w) == with_people_count[w] + without_people_count[w] + error_count[w]

\* C9: between two files, after the loop has handled k files, the three
\* counters of the worker sum to k; at the summary they sum to the number of
\* image files listed.
C9_CountsSumToHandled ==
    \A w \in Runs :
        /\ spc[w] \in {"item", "summary"} => CountSum(w) = handled[w]
        /\ spc[w] = "summary" => CountSum(w) = Len(ImageFiles(sfolder[w]))

\* the first free name for stem in folder: the plain name, else the lowest
\* numbered one
FirstFree(folder, stem) ==
    IF ~Exists(folder, PlainName(stem)) THEN PlainName(stem)
    ELSE NumberedName(stem,
            CHOOSE n \in 1..(Cardinality(DOMAIN dest[folder]) + 1) :
                /\ ~Exists(folder, NumberedName(stem, n))
                /\ \A k \in 1..(n - 1) : Exists(folder, NumberedName(stem, k)))

\* worker w completes a copy in this step
Copies(w) == spc[w] = "copy" /\ idx'[w] = idx[w] + 1 /\ error_count'[w] = error_count[w]

\* C10: every file present in a destination directory before a step is
\* present with the same content after it, and a completed copy creates a
\* new file under the first free name of its destination (name.ext, else
\* name_1.ext, name_2.ext, ...).
C10_NeverOverwrites ==
    [][ /\ \A d \in DestFolders : \A n \in DOMAIN dest[d] :
              n \in DOMAIN dest'[d] /\ dest'[d][n] = dest[d][n]
        /\ \A w \in Runs : Copies(w) =>
              /\ ~Exists(dest_folder[w], dest_path[w])
              /\ dest_path[w] = FirstFree(dest_folder[w],
                                          ImageFiles(sfolder[w])[idx[w]])
              /\ dest_path[w] \in DOMAIN dest'[dest_folder[w]] ]_vars

\* worker w is inside the loop over image_files
InLoop(w) == spc[w] \in {"item", "exists", "copy"}

\* worker w counts a failed file in this step
FileFails(w) == error_count'[w] = error_count[w] + 1

\* C11: inside the loop the current file is number idx of the list, with
\* idx - 1 files done; a step of the loop either stays with the current file
\* or moves to the next one (index + 1, same list), never ends the batch
\* early; a failing file is counted once, logged once and followed by the
\* next file; the summary is reached only after all files of the list.
C11_FailureDoesNotAbort ==
    /\ [][ \A w \in Runs : InLoop(w) =>
              /\ image_files'[w] = image_files[w]
              /\ idx'[w] \in {idx[w], idx[w] + 1}
              /\ spc'[w] = IF idx'[w] = idx[w] THEN spc'[w]
                           ELSE LoopPc(idx[w] + 1, Len(image_files[w]))
              /\ spc'[w] \in {"item", "exists", "copy", "summary"}
              /\ error_count'[w] # error_count[w] =>
                    /\ FileFails(w)
                    /\ error_lines'[w] = error_lines[w] + 1
                    /\ idx'[w] = idx[w] + 1
                    /\ dest' = dest ]_vars
    /\ [](\A w \in Runs :
            /\ InLoop(w) => /\ idx[w] \in 1..Len(image_files[w])
                            /\ handled[w] = idx[w] - 1
            /\ spc[w] = "summary" => /\ idx[w] = Len(image_files[w]) + 1
                                     /\ handled[w] = Len(image_files[w])
            /\ error_lines[w] = error_count[w])

\* a batch of two files reached its summary after the first file failed in
\* the detector and the second was copied to the directory without people
C11_Witness ==
    \E w \in Runs :
        /\ spc[w] = "summary"
        /\ Len(image_files[w]) = 2
        /\ error_count[w] = 1
        /\ with_people_count[w] = 0
        /\ without_people_count[w] = 1
        /\ \E n \in DOMAIN dest[WithoutFolder] : n[1] = "b"

\* number of setup-error lines in a status log
SetupErrors(log) == Len(SelectSeq(log, LAMBDA line : line = "setup_error"))

\* worker w has handled no file
NothingHandled(w) ==
    /\ image_files[w] = <<>>
    /\ idx[w] = 0
    /\ handled[w] = 0
    /\ with_people_count[w] = 0
    /\ without_people_count[w] = 0
    /\ error_count[w] = 0

\* C12: when the setup of worker w fails, the step that reports it leaves
\* exactly one setup-error line in the status log, is_sorting false and
\* Start enabled, and touches no file; from there the worker handles no file
\* and its only further step ends it, again with is_sorting false and Start
\* enabled.
C12_SetupFailureAbortsOnce ==
    [][ \A w \in Runs :
          /\ (spc[w] = "init" /\ spc'[w] = "return") =>
                /\ SetupErrors(status_log') = 1
                /\ ~is_sorting' /\ start_enabled'
                /\ dest' = dest /\ input_files' = input_files
          /\ spc[w] = "return" =>
                /\ NothingHandled(w)
                /\ spc'[w] \in {"return", "done"}
                /\ spc'[w] = "done" =>
                      /\ ~is_sorting' /\ start_enabled'
                      /\ dest' = dest /\ input_files' = input_files ]_vars

\* ------------------------------------------------------------------------
\* Worker threads of the tabs: properties
\* ------------------------------------------------------------------------

\* the load_model thread started by ChatBotTab.__init__ has not ended
LoaderAlive == lpc # "done"

\* the get_bot_response workers that have not ended
ChatWorkers == {w \in Turns : cpc[w] \notin {"none", "done"}}

\* the sort_pictures workers that have not ended
SortWorkers == {w \in Runs : spc[w] \notin {"none", "done"}}

\* C13: at most one auxiliary worker thread (model load, chat turn, batch
\* sort) is running at any time.
C13_AtMostOneAuxThread ==
    (IF LoaderAlive THEN 1 ELSE 0) + Cardinality(ChatWorkers)
        + Cardinality(SortWorkers) <= 1

\* C14: no step of the batch sort removes, renames or modifies a file of an
\* input directory: the files of every input directory are the same after
\* each step as before it, and so after a batch as before it.
C14_InputUntouched ==
    /\ [][input_files' = input_files]_vars
    /\ [](\A f \in InputFolders : input_files[f] = InitialFiles(f))

\* a batch over in1 copied both files, one to each destination, and both are
\* still in the input directory
C14_Witness ==
    \E w \in Runs :
        /\ spc[w] = "summary"
        /\ sfolder[w] = "in1"
        /\ with_people_count[w] = 1 /\ without_people_count[w] = 1
        /\ error_count[w] = 0
        /\ \E n \in DOMAIN dest[WithFolder] : dest[WithFolder][n] = Content("in1", "a")
        /\ \E n \in DOMAIN dest[WithoutFolder] : dest[WithoutFolder][n] = Content("in1", "b")
        /\ input_files["in1"] = <<"a", "b">>

\* C15: once the cancellation signal is set, a worker that is between two
\* files handles no further file: it classifies and copies nothing and its
\* index stays where it is.
C15_CancelStopsLoop ==
    [][ \A w \in Runs : (cancel_flag /\ spc[w] = "item") =>
            /\ spc'[w] \in {"item", "summary", "finally", "done"}
            /\ idx'[w] \in {idx[w], 0}
            /\ with_people_count'[w] <= with_people_count[w]
            /\ without_people_count'[w] <= without_people_count[w]
            /\ dest' = dest ]_vars

\* C16: every worker that was started ends; the step that ends it leaves
\* is_sorting false and the Start control enabled, whether it ends after the
\* last file, after a failed setup or after a fatal error.
C16_BatchTerminates ==
    /\ \A w \in Runs : (spc[w] = "init") ~> (spc[w] = "done")
    /\ [][ \A w \in Runs : (spc[w] # "done" /\ spc'[w] = "done") =>
              /\ spc[w] \in {"return", "finally"}
              /\ ~is_sorting' /\ start_enabled' ]_vars

\* a batch has ended with the controls reset after its copy of a met two
\* name collisions and was written as a_2, and its copy of b one collision
C16_Witness ==
    /\ spc[1] = "done"
    /\ ~is_sorting /\ start_enabled
    /\ NumberedName("a", 2) \in DOMAIN dest[WithFolder]
    /\ NumberedName("b", 1) \in DOMAIN dest[WithoutFolder]

\* C17: at most one sort_pictures worker is in flight, and while one is,
\* is_sorting is true and the Start control is disabled.
C17_OneSortWorker ==
    /\ Cardinality(SortWorkers) <= 1
    /\ SortWorkers # {} => (is_sorting /\ ~start_enabled)

\* C18: at most one get_bot_response worker is in flight, and a step taken
\* while one is in flight with the Send button and the entry disabled starts
\* no worker and leaves both disabled.
C18_OneChatWorker ==
    /\ [](Cardinality(ChatWorkers) <= 1)
    /\ [][ (ChatWorkers # {} /\ ~send_enabled /\ ~entry_enabled) =>
              /\ turns' = turns
              /\ ~send_enabled' /\ ~entry_enabled' ]_vars

\* ------------------------------------------------------------------------
\* TaskManager: the result channel
\* ------------------------------------------------------------------------

\* positions of result_queue that hold the outcome of task t
QueuedOf(t) == {k \in DOMAIN result_queue : result_queue[k].value = t}

\* C19: result_queue holds at most one result at any time, and the outcome
\* of a task is put once and taken once: it is never both queued and
\* delivered, nor queued or delivered twice.
C19_SingleSlotChannel ==
    /\ Len(result_queue) <= 1
    /\ \A t \in Calls : Cardinality(QueuedOf(t)) + Cardinality(DeliveriesOf(t)) <= 1

\* ------------------------------------------------------------------------
\* Threads that change the user interface
\* ------------------------------------------------------------------------

\* the step is start_sorting, run by the UI thread
StartSortingStep == runs' = runs + 1

\* the step is send_message or a callback queued with after(0, ...), both
\* run by the UI thread
ChatUIStep ==
    \/ turns' = turns + 1
    \/ ui_queue # <<>> /\ ui_queue' = Tail(ui_queue)

\* C20: every step that changes the state of the user interface (the Start
\* control and the status log of the sort tab; the Send button, the entry,
\* the Clear button and the typing indicator of the chat tab) is a step of
\* the UI thread, never a step of a worker thread.
C20_UIChangesOnUIThread ==
    [][ /\ (start_enabled' # start_enabled \/ status_log' # status_log)
              => StartSortingStep
        /\ (chatButtons' # chatButtons \/ typing_attr' # typing_attr)
              => ChatUIStep ]_vars

\* ------------------------------------------------------------------------
\* ChatBotTab: the conversation log
\* ------------------------------------------------------------------------

\* who said an entry of the log: messages typed by the user start with u
\* (p in the turns before the behaviour), everything else is a reply
Speaker(entry) == IF entry[1] \in {"u", "p"} THEN "user" ELSE "assistant"

\* C21: no two consecutive entries of the conversation log come from the
\* same speaker.
C21_LogAlternates ==
    \A i \in 1..(Len(chat_history) - 1) :
        Speaker(chat_history[i]) # Speaker(chat_history[i + 1])

\* C22: every change of the conversation log either appends one utterance
\* at its tail or cuts it down to its 10 newest entries; nothing else
\* removes, replaces or reorders entries.
C22_LogOnlyAppendedAndCut ==
    [][ chat_history' # chat_history =>
            \/ /\ Len(chat_history') = Len(chat_history) + 1
               /\ SubSeq(chat_history', 1, Len(chat_history)) = chat_history
            \/ chat_history' = LastN(chat_history, MaxHistory) ]_vars

\* the worker of turn w builds its model input in this step
BuildsInput(w) == cpc[w] = "encode" /\ cpc'[w] = "generate"

\* C23: the model input of every turn is built from at most 10 utterances,
\* the 10 most recently appended ones.
C23_InputIsTenNewest ==
    [][ \A w \in Turns : BuildsInput(w) =>
            /\ Len(plog'[w]) <= MaxHistory
            /\ plog'[w] = LastN(said, MaxHistory) ]_vars

\* the callbacks that end a turn on the UI thread
DisplayCallbacks == {"display_response", "display_error"}

\* the worker of turn w ends in this step
WorkerEnds(w) == cpc[w] \in {"append", "trunc", "store", "encode", "generate"} /\ cpc'[w] = "done"

\* the UI thread runs display_response or display_error in this step
DisplayRuns ==
    /\ ui_queue # <<>>
    /\ Head(ui_queue) \in DisplayCallbacks
    /\ ui_queue' = Tail(ui_queue)

\* a turn has not ended yet: its worker runs or its callback is queued
TurnPending ==
    \/ ChatWorkers # {}
    \/ \E i \in 1..Len(ui_queue) : ui_queue[i] \in DisplayCallbacks

\* C24: the worker of every turn hands exactly one of display_response and
\* display_error to the UI thread when it ends; when that callback has run,
\* Send, the entry and Clear are enabled again and, unless another turn is
\* still pending, no typing indicator is left on the screen.
C24_TurnEndsWithOneDisplay ==
    [][ /\ \A w \in Turns : WorkerEnds(w) =>
               \E cb \in DisplayCallbacks : ui_queue' = Append(ui_queue, cb)
        /\ DisplayRuns =>
               /\ send_enabled' /\ entry_enabled' /\ clear_enabled'
               /\ ~typing_attr'
               /\ ~TurnPending' => ~typing_orphans' ]_vars

====
